---- MODULE Spec2Model ----
(***************************************************************************)
(* Resilience layer of the trend-reports search API:                       *)
(*   backend/resilience.py       CircuitBreaker                            *)
(*   backend/resilience.py       with_timeout, retry_with_backoff,         *)
(*                               get_circuit_breaker, HealthChecker        *)
(*   backend/chromadb_wrapper.py SafeChromaDBWrapper                       *)
(*                                                                         *)
(* One breaker, shared by up to NumCallers tasks that go through           *)
(* CircuitBreaker.call, by direct callers of _should_attempt_call /        *)
(* record_success / record_failure, and by one SafeChromaDBWrapper.        *)
(* Time is a discrete wall clock `now`; datetime.now() reads it.           *)
(***************************************************************************)
EXTENDS Integers, FiniteSets, Sequences, TLC

\* ---- bounds of the model ------------------------------------------------
MaxThreshold == 2      \* failure_threshold, success_threshold in 1..MaxThreshold
MaxHalfOpen  == 2      \* half_open_max_calls in 1..MaxHalfOpen
MaxTimeout   == 1      \* timeout in 0..MaxTimeout
MaxTime      == 2      \* the clock runs 0..MaxTime
MaxCalls     == 4      \* cap on recorded + in-flight calls
NumCallers   == 3      \* concurrent tasks using CircuitBreaker.call
MaxRetries   == 2      \* max_retries passed to retry_with_backoff in 0..MaxRetries
MaxChecks    == 2      \* checks registered with the HealthChecker
NumClients   == 2      \* callers of get_circuit_breaker
NumThreads   == 2      \* threads recording outcomes on one breaker
MaxRecorded  == 2      \* cap on the outcomes recorded on a registered breaker

\* ---- constants of the program --------------------------------------------
WrapperMaxRetries == 3 \* SafeChromaDBWrapper(max_retries=3)
CountMaxRetries   == 2 \* @retry_with_backoff(max_retries=2) of count
WrapperTimeout    == 10 \* SafeChromaDBWrapper(timeout_seconds=10)
CountTimeout      == 5 \* with_timeout(_count(), timeout_seconds=5)
HealthCheckTimeout == 5 \* with_timeout(check_func(), timeout_seconds=5)

\* ---- CircuitState (resilience.py:26-30) ---------------------------------
CLOSED    == "closed"
OPEN      == "open"
HALF_OPEN == "half_open"
CircuitState == {CLOSED, OPEN, HALF_OPEN}

\* Optional[datetime] = None
None == -1

VARIABLES
    config,        \* CircuitBreakerConfig of the breaker
    stats,         \* CircuitBreakerStats of the breaker
    now,           \* wall clock
    awaiting,      \* number of tasks inside call, suspended at `await func()`
                   \* (the tasks are interchangeable: all run the same code)
    probes,        \* how many of them were admitted by the gate since the
                   \* breaker last entered HALF_OPEN
    invocations,   \* how often the function wrapped by call was invoked
    collection_calls, \* how often the ChromaDB collection was invoked
    streak,        \* while CLOSED: failures recorded since the last success
                   \* or since the breaker entered CLOSED; 0 otherwise
    last,          \* the operation executed by the last step and its outcome
    collection,    \* how the ChromaDB collection behind the wrapper behaves
    retry,         \* one task running retry_with_backoff(func, ...)
    wt,            \* the with_timeout call that task or check_health awaits
    health,        \* the HealthChecker and its running check_health call
    registry,      \* _circuit_breakers: name -> the breaker registered
                   \* under it (its index in `breakers`)
    breakers,      \* the CircuitBreaker objects get_circuit_breaker created
    refs,          \* per client of get_circuit_breaker: its call in progress
                   \* and the reference its last call returned
    thr,           \* per thread: its record_failure / record_success call
                   \* on the breaker in progress
    dependency     \* "down" or "up": does the function behind call fail

\* the breaker and its users
breaker == <<config, stats, now, awaiting, probes, invocations,
             collection_calls, streak, last>>

\* the state outside the breaker
ext == <<collection, retry, wt, health, registry, breakers, refs, thr,
        dependency>>

\* the breaker without the record of the last step
breaker_but_last ==
    <<config, stats, now, awaiting, probes, invocations, collection_calls,
      streak>>

\* the registry and its clients, the threads and the dependency
others == <<breakers, refs, thr, dependency>>

vars == <<config, stats, now, awaiting, probes, invocations, collection_calls,
          streak, last, collection, retry, wt, health, registry, breakers,
          refs, thr, dependency>>

\* ---- CircuitBreakerConfig (resilience.py:33-39) -------------------------
CircuitBreakerConfig ==
    [failure_threshold   : 1..MaxThreshold,
     success_threshold   : 1..MaxThreshold,
     timeout             : 0..MaxTimeout,
     half_open_max_calls : 1..MaxHalfOpen]

\* ---- CircuitBreakerStats (resilience.py:42-52), at construction time t --
CircuitBreakerStats(t) ==
    [state             |-> CLOSED,
     failure_count     |-> 0,
     success_count     |-> 0,
     last_failure_time |-> None,
     last_state_change |-> t,
     total_calls       |-> 0,
     total_failures    |-> 0,
     total_successes   |-> 0]

\* ---- state transitions (resilience.py:96-117) ---------------------------
transition_to_half_open(s, t) ==
    [s EXCEPT !.state = HALF_OPEN,
              !.success_count = 0,
              !.failure_count = 0,
              !.last_state_change = t]

transition_to_open(s, t) ==
    [s EXCEPT !.state = OPEN,
              !.last_failure_time = t,
              !.last_state_change = t]

\* variant: closing forgets to reset success_count
transition_to_closed_keeps_successes(s, t) ==
    [s EXCEPT !.state = CLOSED,
              !.failure_count = 0,
              !.last_state_change = t]

transition_to_closed(s, t) ==
    [s EXCEPT !.state = CLOSED,
              !.failure_count = 0,
              !.success_count = 0,
              !.last_state_change = t]

\* ---- _should_attempt_call (resilience.py:76-94) -------------------------
\* variant: an OPEN breaker lets the call through without looking at the clock
should_attempt_call_ignores_timeout(s, cfg, t) ==
    IF s.state = CLOSED THEN [ret |-> TRUE, stats |-> s]
    ELSE IF s.state = OPEN THEN
        [ret |-> TRUE, stats |-> transition_to_half_open(s, t)]
    ELSE [ret |-> s.total_calls < cfg.half_open_max_calls, stats |-> s]

\* variant: the timeout must be exceeded, not merely reached
should_attempt_call_strict(s, cfg, t) ==
    IF s.state = CLOSED THEN [ret |-> TRUE, stats |-> s]
    ELSE IF s.state = OPEN THEN
        IF s.last_failure_time # None /\ t - s.last_failure_time > cfg.timeout
        THEN [ret |-> TRUE, stats |-> transition_to_half_open(s, t)]
        ELSE [ret |-> FALSE, stats |-> s]
    ELSE [ret |-> s.total_calls < cfg.half_open_max_calls, stats |-> s]

\* Returns the boolean and the stats it leaves behind.
should_attempt_call(s, cfg, t) ==
    IF s.state = CLOSED THEN [ret |-> TRUE, stats |-> s]
    ELSE IF s.state = OPEN THEN
        IF s.last_failure_time # None /\ t - s.last_failure_time >= cfg.timeout
        THEN [ret |-> TRUE, stats |-> transition_to_half_open(s, t)]
        ELSE [ret |-> FALSE, stats |-> s]
    ELSE IF s.state = HALF_OPEN THEN
        [ret |-> s.total_calls < cfg.half_open_max_calls, stats |-> s]
    ELSE [ret |-> FALSE, stats |-> s]

\* ---- record_success (resilience.py:119-130) -----------------------------
\* variant: a success in CLOSED leaves failure_count alone
record_success_no_reset(s, cfg, t) ==
    LET s1 == [s EXCEPT !.total_calls = @ + 1, !.total_successes = @ + 1] IN
    IF s1.state = HALF_OPEN THEN
        LET s2 == [s1 EXCEPT !.success_count = @ + 1] IN
        IF s2.success_count >= cfg.success_threshold
        THEN transition_to_closed(s2, t)
        ELSE s2
    ELSE s1

\* variant: one success more than success_threshold is needed to close
record_success_late_close(s, cfg, t) ==
    LET s1 == [s EXCEPT !.total_calls = @ + 1, !.total_successes = @ + 1] IN
    IF s1.state = HALF_OPEN THEN
        LET s2 == [s1 EXCEPT !.success_count = @ + 1] IN
        IF s2.success_count > cfg.success_threshold
        THEN transition_to_closed(s2, t)
        ELSE s2
    ELSE IF s1.state = CLOSED THEN [s1 EXCEPT !.failure_count = 0]
    ELSE s1

\* variant: a success recorded while OPEN closes the breaker
record_success_closes_open(s, cfg, t) ==
    LET s1 == [s EXCEPT !.total_calls = @ + 1, !.total_successes = @ + 1] IN
    IF s1.state = HALF_OPEN THEN
        LET s2 == [s1 EXCEPT !.success_count = @ + 1] IN
        IF s2.success_count >= cfg.success_threshold
        THEN transition_to_closed(s2, t)
        ELSE s2
    ELSE IF s1.state = CLOSED THEN [s1 EXCEPT !.failure_count = 0]
    ELSE transition_to_closed(s1, t)

record_success(s, cfg, t) ==
    LET s1 == [s EXCEPT !.total_calls = @ + 1, !.total_successes = @ + 1] IN
    IF s1.state = HALF_OPEN THEN
        LET s2 == [s1 EXCEPT !.success_count = @ + 1] IN
        IF s2.success_count >= cfg.success_threshold
        THEN transition_to_closed(s2, t)
        ELSE s2
    ELSE IF s1.state = CLOSED THEN [s1 EXCEPT !.failure_count = 0]
    ELSE s1

\* ---- record_failure (resilience.py:132-144) -----------------------------
\* variant: HALF_OPEN reopens only once failure_threshold is reached
record_failure_threshold_in_half_open(s, cfg, t) ==
    LET s1 == [s EXCEPT !.total_calls = @ + 1,
                        !.total_failures = @ + 1,
                        !.failure_count = @ + 1,
                        !.last_failure_time = t] IN
    IF s1.state \in {HALF_OPEN, CLOSED} THEN
        IF s1.failure_count >= cfg.failure_threshold
        THEN transition_to_open(s1, t)
        ELSE s1
    ELSE s1

\* variant: CLOSED opens one failure after failure_threshold is reached
record_failure_late_open(s, cfg, t) ==
    LET s1 == [s EXCEPT !.total_calls = @ + 1,
                        !.total_failures = @ + 1,
                        !.failure_count = @ + 1,
                        !.last_failure_time = t] IN
    IF s1.state = HALF_OPEN THEN transition_to_open(s1, t)
    ELSE IF s1.state = CLOSED THEN
        IF s1.failure_count > cfg.failure_threshold
        THEN transition_to_open(s1, t)
        ELSE s1
    ELSE s1

record_failure(s, cfg, t) ==
    LET s1 == [s EXCEPT !.total_calls = @ + 1,
                        !.total_failures = @ + 1,
                        !.failure_count = @ + 1,
                        !.last_failure_time = t] IN
    IF s1.state = HALF_OPEN THEN transition_to_open(s1, t)
    ELSE IF s1.state = CLOSED THEN
        IF s1.failure_count >= cfg.failure_threshold
        THEN transition_to_open(s1, t)
        ELSE s1
    ELSE s1

\* ---- helpers of the model -----------------------------------------------
\* the calls one breaker records in the model: MaxCalls, and as many more as
\* a failure_threshold beyond MaxThreshold (the default 5) needs to open
CallCap ==
    MaxCalls + (IF config.failure_threshold > MaxThreshold
                THEN config.failure_threshold ELSE 0)

\* room for one more recorded outcome (keeps the lifetime counters bounded)
Room == stats.total_calls + awaiting < CallCap

\* op: the operation, result: what it returned or raised, recorded: the
\* outcome it recorded on the breaker, from: the state it started in
Step(op, result, recorded) ==
    [op |-> op, result |-> result, recorded |-> recorded, from |-> stats.state]

\* the failure streak after a step that recorded `recorded` and left stats s
Streak(recorded, s) ==
    IF s.state # CLOSED \/ stats.state # CLOSED \/ recorded = "success" THEN 0
    ELSE IF recorded = "failure" THEN streak + 1
    ELSE streak

\* ---- the collection behind the wrapper -----------------------------------
\* Each operation of the collection fails `fails` times in a row with an
\* error of kind `kind` (it exceeds the deadline, it cannot be reached, or
\* anything else) and succeeds from then on; fails > max_retries: it fails
\* on every attempt of one wrapper call.
CollectionBehaviour ==
    [fails : 0..(WrapperMaxRetries + 1),
     kind  : {"timeout", "connection", "other"}]

HealthyCollection == [fails |-> 0, kind |-> "other"]

\* ---- outcomes: what a call returned or raised, and in which attempt ------
NoOutcome == [kind |-> "none", n |-> 0]

\* no retry_with_backoff call is running
RetryIdle ==
    [pc |-> "idle", max_retries |-> 0, exceptions |-> {"Exception"},
     attempt |-> 0, invocations |-> 0, sleeps |-> 0, failures |-> 0,
     exceeded |-> 0, last_exception |-> NoOutcome, error |-> NoOutcome,
     outcome |-> NoOutcome]

\* with_timeout has neither returned nor raised
Pending == [kind |-> "none", message |-> <<>>]

\* no with_timeout call is running
WtIdle ==
    [owner |-> "none", operation_name |-> "none", timeout_seconds |-> 0,
     deadline_elapsed |-> FALSE, cancel_requested |-> FALSE,
     result |-> Pending]

\* a client that has not called get_circuit_breaker; arg is the config
\* argument of its last call: <<>> for None, <<cfg>> for a config
NoRef == [pc |-> "idle", name |-> "none", arg |-> <<>>, ref |-> 0]

\* a thread that is not inside a method of the breaker; failures and
\* successes count the record_failure and record_success calls it completed
ThreadIdle == [pc |-> "idle", op |-> "none", failures |-> 0, successes |-> 0]

\* CircuitBreakerConfig() (resilience.py:36-39)
DefaultConfig ==
    [failure_threshold |-> 5, success_threshold |-> 2, timeout |-> 60,
     half_open_max_calls |-> 3]

\* HealthChecker() (resilience.py:367-368): no check registered; no
\* check_health call is running
HealthIdle ==
    [pc |-> "idle", checks |-> <<>>, i |-> 0, results |-> <<>>,
     overall_status |-> "none", raised |-> {}, exceeded |-> {},
     started |-> <<>>]

\* ---- Init: a freshly constructed breaker (resilience.py:62-74) ----------
FreshBreaker ==
    /\ now = 0
    /\ stats = CircuitBreakerStats(0)
    /\ awaiting = 0
    /\ probes = 0
    /\ invocations = 0
    /\ collection_calls = 0
    /\ streak = 0
    /\ last = [op |-> "init", result |-> "none", recorded |-> "none",
               from |-> CLOSED]

\* the breaker is constructed with any config within the bounds
InitBreaker ==
    /\ config \in CircuitBreakerConfig
    /\ FreshBreaker

\* nothing outside the breaker and the collection has been used yet
InitOthers ==
    /\ retry = RetryIdle
    /\ wt = WtIdle
    /\ health = HealthIdle
    /\ registry = <<>>
    /\ breakers = <<>>
    /\ refs = [c \in 1..NumClients |-> NoRef]
    /\ thr = [t \in 1..NumThreads |-> ThreadIdle]
    /\ dependency = "down"

\* the breaker in front of a collection that works
Init ==
    /\ InitBreaker
    /\ collection = HealthyCollection
    /\ InitOthers

\* ---- the clock ----------------------------------------------------------
Tick ==
    /\ now < MaxTime
    /\ now' = now + 1
    /\ last' = Step("tick", "none", "none")
    /\ UNCHANGED <<config, stats, awaiting, probes, invocations, collection_calls,
                   streak>>
    /\ UNCHANGED ext

\* ---- direct use of the breaker's methods --------------------------------
ShouldAttemptCall ==
    LET r == should_attempt_call(stats, config, now) IN
    /\ stats' = r.stats
    /\ probes' = IF stats.state = OPEN /\ r.ret THEN 0 ELSE probes
    /\ streak' = Streak("none", r.stats)
    /\ last' = Step("should_attempt_call", IF r.ret THEN "true" ELSE "false",
                    "none")
    /\ UNCHANGED <<config, now, awaiting, invocations, collection_calls>>
    /\ UNCHANGED ext

RecordSuccess ==
    /\ Room
    /\ stats' = record_success(stats, config, now)
    /\ streak' = Streak("success", stats')
    /\ last' = Step("record_success", "none", "success")
    /\ UNCHANGED <<config, now, awaiting, probes, invocations, collection_calls>>
    /\ UNCHANGED ext

RecordFailure ==
    /\ Room
    /\ stats' = record_failure(stats, config, now)
    /\ streak' = Streak("failure", stats')
    /\ last' = Step("record_failure", "none", "failure")
    /\ UNCHANGED <<config, now, awaiting, probes, invocations, collection_calls>>
    /\ UNCHANGED ext

\* ---- CircuitBreaker.call (resilience.py:146-173) ------------------------
\* A task enters call: the gate and the start of func run without suspension
\* (lines 161-168); an admitted task then waits at `await func()`.
CallBegin ==
    LET r == should_attempt_call(stats, config, now) IN
    /\ stats' = r.stats
    /\ streak' = Streak("none", r.stats)
    /\ IF r.ret
       THEN /\ Room
            /\ awaiting < NumCallers
            /\ awaiting' = awaiting + 1
            /\ invocations' = invocations + 1
            /\ probes' = IF stats.state = OPEN THEN 1
                         ELSE IF stats.state = HALF_OPEN THEN probes + 1
                         ELSE probes
            /\ last' = Step("call", "admitted", "none")
       ELSE /\ UNCHANGED <<awaiting, invocations, probes>>
            /\ last' = Step("call", "CircuitBreakerOpenError", "none")
    /\ UNCHANGED <<config, now, collection_calls>>
    /\ UNCHANGED ext

\* func of one waiting task returns (ok = TRUE) or raises (ok = FALSE) and
\* the task records the outcome (lines 168-173); probe tells whether the
\* task was admitted during the current HALF_OPEN episode.
CallEnd(probe, ok) ==
    /\ IF probe THEN probes > 0 ELSE awaiting - probes > 0
    /\ awaiting' = awaiting - 1
    /\ probes' = IF probe THEN probes - 1 ELSE probes
    /\ stats' = IF ok THEN record_success(stats, config, now)
                      ELSE record_failure(stats, config, now)
    /\ streak' = Streak(IF ok THEN "success" ELSE "failure", stats')
    /\ last' = Step("call_end", IF ok THEN "result" ELSE "Exception",
                    IF ok THEN "success" ELSE "failure")
    /\ UNCHANGED <<config, now, invocations, collection_calls>>
    /\ UNCHANGED ext

\* ---- SafeChromaDBWrapper (chromadb_wrapper.py) --------------------------
\* `@retry_with_backoff(max_retries=...)` (lines 129-134, 200, 249) calls the
\* coroutine function retry_with_backoff without its positional `func`:
\* Python raises TypeError while binding the arguments, before the decorated
\* function exists, so the collection is not reached.
decorate_with_retry ==
    [raised |-> "TypeError", collection_calls |-> 0]

\* variant: the rejection falls through to the generic handler
query_except_generic(exc) ==
    IF exc = "TimeoutError"
    THEN [record |-> TRUE, raises |-> "ChromaDBTimeoutError"]
    ELSE [record |-> TRUE, raises |-> "ChromaDBQueryError"]

\* variant: the handlers re-raise without telling the breaker
query_except_silent(exc) ==
    IF exc = "TimeoutError"
    THEN [record |-> FALSE, raises |-> "ChromaDBTimeoutError"]
    ELSE IF exc = "CircuitBreakerOpenError"
    THEN [record |-> FALSE, raises |-> "CircuitBreakerOpenError"]
    ELSE [record |-> FALSE, raises |-> "ChromaDBQueryError"]

\* except clauses of query (lines 164-187): does the handler record a
\* failure, and what does it raise
query_except(exc) ==
    IF exc = "TimeoutError"
    THEN [record |-> TRUE, raises |-> "ChromaDBTimeoutError"]
    ELSE IF exc = "CircuitBreakerOpenError"
    THEN [record |-> FALSE, raises |-> "CircuitBreakerOpenError"]
    ELSE [record |-> TRUE, raises |-> "ChromaDBQueryError"]

\* variant: count swallows the error without telling the breaker
count_except_unrecorded(exc) == [record |-> FALSE, returns |-> "0"]

\* except clause of count (lines 215-219): record the failure, return 0
count_except(exc) == [record |-> TRUE, returns |-> "0"]

\* except clause of get (lines 270-273)
get_except(exc) == [record |-> TRUE, raises |-> "ChromaDBQueryError"]

\* query (lines 116-187): gate, then the decorated execution
Query ==
    LET r   == should_attempt_call(stats, config, now)
        exc == IF r.ret THEN decorate_with_retry.raised
                        ELSE "CircuitBreakerOpenError"
        h   == query_except(exc)
    IN
    /\ h.record => Room
    /\ stats' = IF h.record THEN record_failure(r.stats, config, now)
                            ELSE r.stats
    /\ collection_calls' = collection_calls +
           (IF r.ret THEN decorate_with_retry.collection_calls ELSE 0)
    /\ probes' = IF stats.state = OPEN /\ r.ret THEN 0 ELSE probes
    /\ streak' = Streak(IF h.record THEN "failure" ELSE "none", stats')
    /\ last' = Step("query", h.raises, IF h.record THEN "failure" ELSE "none")
    /\ UNCHANGED <<config, now, awaiting, invocations>>
    /\ UNCHANGED ext

\* count (lines 189-219): no gate
Count ==
    LET h == count_except(decorate_with_retry.raised) IN
    /\ h.record => Room
    /\ stats' = IF h.record THEN record_failure(stats, config, now) ELSE stats
    /\ collection_calls' = collection_calls + decorate_with_retry.collection_calls
    /\ streak' = Streak(IF h.record THEN "failure" ELSE "none", stats')
    /\ last' = Step("count", h.returns, IF h.record THEN "failure" ELSE "none")
    /\ UNCHANGED <<config, now, awaiting, probes, invocations>>
    /\ UNCHANGED ext

\* get (lines 221-273): no gate
Get ==
    LET h == get_except(decorate_with_retry.raised) IN
    /\ h.record => Room
    /\ stats' = IF h.record THEN record_failure(stats, config, now) ELSE stats
    /\ collection_calls' = collection_calls + decorate_with_retry.collection_calls
    /\ streak' = Streak(IF h.record THEN "failure" ELSE "none", stats')
    /\ last' = Step("get", h.raises, IF h.record THEN "failure" ELSE "none")
    /\ UNCHANGED <<config, now, awaiting, probes, invocations>>
    /\ UNCHANGED ext

Next ==
    \/ Tick
    \/ ShouldAttemptCall
    \/ RecordSuccess
    \/ RecordFailure
    \/ CallBegin
    \/ \E probe \in BOOLEAN, ok \in BOOLEAN : CallEnd(probe, ok)
    \/ Query
    \/ Count
    \/ Get

Spec == Init /\ [][Next]_vars

\* Only CircuitBreaker.call is used on the breaker (the setting of
\* tests/test_resilience.py).
NextCall ==
    \/ Tick
    \/ CallBegin
    \/ \E probe \in BOOLEAN, ok \in BOOLEAN : CallEnd(probe, ok)

SpecCall == Init /\ [][NextCall]_vars

\* The wrapper in front of a collection that behaves in any of the ways the
\* tests of tests/test_chromadb_wrapper.py set up.
InitWrapper ==
    /\ InitBreaker
    /\ collection \in CollectionBehaviour
    /\ InitOthers

NextWrapper ==
    \/ Tick
    \/ ShouldAttemptCall
    \/ Query
    \/ Count
    \/ Get

SpecWrapper == InitWrapper /\ [][NextWrapper]_vars

\* =========================================================================
\* with_timeout and retry_with_backoff (resilience.py:197-278)
\* =========================================================================
\* What the awaited operation can raise by itself; all derive from Exception.
OpErrors == {"ConnectionError", "ValueError", "CircuitBreakerOpenError"}

\* How the awaited operation can end: it returns, it raises, or - once
\* wait_for has cancelled it - it lets CancelledError through.
OpOutcomes == {"result", "CancelledError"} \cup OpErrors

\* the `exceptions` tuples passed to retry_with_backoff; ("Exception",) is
\* the default
RetryPolicies ==
    {{"Exception"}, {"ConnectionError"}, {"ConnectionError", "TimeoutError"}}

\* the with_timeout calls made inside a retried function
\* (chromadb_wrapper.py:204-209 and 259-264)
GuardedCalls ==
    {[operation_name |-> "chromadb_get", timeout_seconds |-> WrapperTimeout],
     [operation_name |-> "chromadb_count", timeout_seconds |-> CountTimeout]}

\* isinstance(e, cls) for an exception of class `kind`
IsInstance(kind, cls) == cls = "Exception" \/ cls = kind

\* `except exceptions as e` catches an exception of class `kind`
Matches(kind, exceptions) == \E cls \in exceptions : IsInstance(kind, cls)

\* with_timeout(coro, timeout_seconds, operation_name) starts awaiting coro
StartTimeout(owner, operation_name, timeout_seconds) ==
    [WtIdle EXCEPT !.owner = owner, !.operation_name = operation_name,
                   !.timeout_seconds = timeout_seconds]

\* asyncio.wait_for once the operation has ended with `out`: after the
\* deadline it has cancelled the operation and waits for it to end; it
\* raises asyncio.TimeoutError only if the operation ended cancelled, and
\* passes on whatever else the operation returned or raised.
wait_for(w, out) ==
    IF w.deadline_elapsed /\ out = "CancelledError"
    THEN "asyncio.TimeoutError"
    ELSE out

\* with_timeout once the operation has ended with `out`: the result it
\* returns or the exception it raises
with_timeout(w, out) ==
    LET r == wait_for(w, out) IN
    [w EXCEPT !.result =
        IF r = "asyncio.TimeoutError"
        THEN [kind |-> "TimeoutError",
              message |-> <<w.operation_name, w.timeout_seconds>>]
        ELSE [kind |-> r, message |-> <<>>]]

\* the operation awaited by with_timeout ends; it can end cancelled only
\* after wait_for has cancelled it
OpFinishes(out) ==
    /\ wt.owner # "none"
    /\ wt.result = Pending
    /\ out = "CancelledError" => wt.cancel_requested
    /\ wt' = with_timeout(wt, out)
    /\ UNCHANGED <<collection, retry, health, registry>>
    /\ UNCHANGED others
    /\ UNCHANGED breaker

\* the deadline of wait_for passes before the operation has ended: wait_for
\* cancels the operation and goes on waiting for it
DeadlineElapses ==
    /\ wt.owner # "none"
    /\ wt.result = Pending
    /\ ~wt.deadline_elapsed
    /\ wt' = [wt EXCEPT !.deadline_elapsed = TRUE, !.cancel_requested = TRUE]
    /\ UNCHANGED <<collection, retry, health, registry>>
    /\ UNCHANGED others
    /\ UNCHANGED breaker

\* the except clause of retry_with_backoff gives up one attempt early
retry_handle_gives_up_early(r, e) ==
    LET err == [kind |-> e, n |-> r.invocations]
        f   == [r EXCEPT !.error = err, !.failures = @ + 1]
    IN  IF ~Matches(e, r.exceptions)
        THEN [f EXCEPT !.pc = "raised", !.outcome = err]
        ELSE IF r.attempt + 1 >= r.max_retries
        THEN [f EXCEPT !.last_exception = err, !.pc = "raised",
                       !.outcome = err]
        ELSE [f EXCEPT !.last_exception = err, !.pc = "sleeping",
                       !.sleeps = @ + 1]

\* the except clause of retry_with_backoff catches every exception
retry_handle_catches_all(r, e) ==
    LET err == [kind |-> e, n |-> r.invocations]
        f   == [r EXCEPT !.error = err, !.failures = @ + 1]
    IN  IF r.attempt = r.max_retries
        THEN [f EXCEPT !.last_exception = err, !.pc = "raised",
                       !.outcome = err]
        ELSE [f EXCEPT !.last_exception = err, !.pc = "sleeping",
                       !.sleeps = @ + 1]

\* func raised an exception of class e in attempt r.attempt
\* (resilience.py:257-275): an exception the tuple does not match leaves
\* retry_with_backoff; a matching one is re-raised in the last attempt and
\* followed by a backoff sleep in every other attempt.
retry_handle(r, e) ==
    LET err == [kind |-> e, n |-> r.invocations]
        f   == [r EXCEPT !.error = err, !.failures = @ + 1]
    IN  IF ~Matches(e, r.exceptions)
        THEN [f EXCEPT !.pc = "raised", !.outcome = err]
        ELSE IF r.attempt = r.max_retries
        THEN [f EXCEPT !.last_exception = err, !.pc = "raised",
                       !.outcome = err]
        ELSE [f EXCEPT !.last_exception = err, !.pc = "sleeping",
                       !.sleeps = @ + 1]

\* retry_with_backoff(func, max_retries=m, exceptions=excs) is called and
\* invokes func for attempt 0; func awaits with_timeout(op(), ...)
RetryCall(m, excs, g) ==
    /\ retry.pc = "idle"
    /\ wt.owner = "none"
    /\ retry' = [RetryIdle EXCEPT !.pc = "running", !.max_retries = m,
                                  !.exceptions = excs, !.invocations = 1]
    /\ wt' = StartTimeout("retry", g.operation_name, g.timeout_seconds)
    /\ UNCHANGED <<collection, health, registry>>
    /\ UNCHANGED others
    /\ UNCHANGED breaker

\* with_timeout has returned or raised, and so has func: retry_with_backoff
\* returns the result or handles the exception
RetryAttemptDone ==
    /\ retry.pc = "running"
    /\ wt.owner = "retry"
    /\ wt.result # Pending
    /\ LET r == [retry EXCEPT !.exceeded =
                    IF wt.deadline_elapsed THEN @ + 1 ELSE @]
       IN  retry' =
             IF wt.result.kind = "result"
             THEN [r EXCEPT !.pc = "returned",
                            !.outcome = [kind |-> "result",
                                         n |-> r.invocations]]
             ELSE retry_handle(r, wt.result.kind)
    /\ UNCHANGED <<collection, wt, health, registry>>
    /\ UNCHANGED others
    /\ UNCHANGED breaker

\* asyncio.sleep(delay) is over: the loop goes to its next attempt and
\* invokes func again; after range(max_retries + 1) is exhausted
\* last_exception is raised (resilience.py:278)
Wake ==
    /\ retry.pc = "sleeping"
    /\ IF retry.attempt + 1 > retry.max_retries
       THEN /\ retry' = [retry EXCEPT !.pc = "raised",
                                      !.outcome = retry.last_exception]
            /\ wt' = wt
       ELSE /\ retry' = [retry EXCEPT !.pc = "running", !.attempt = @ + 1,
                                      !.invocations = @ + 1]
            /\ wt' = StartTimeout("retry", wt.operation_name,
                                  wt.timeout_seconds)
    /\ UNCHANGED <<collection, health, registry>>
    /\ UNCHANGED others
    /\ UNCHANGED breaker

NextRetry ==
    \/ \E m \in 0..MaxRetries, excs \in RetryPolicies, g \in GuardedCalls :
           RetryCall(m, excs, g)
    \/ \E out \in OpOutcomes : OpFinishes(out)
    \/ DeadlineElapses
    \/ RetryAttemptDone
    \/ Wake

SpecRetry == Init /\ [][NextRetry]_vars

\* =========================================================================
\* HealthChecker and the registry of breakers (resilience.py:325-417)
\* =========================================================================
\* HealthStatus
HEALTHY   == "healthy"
DEGRADED  == "degraded"
UNHEALTHY == "unhealthy"

\* names a check can be registered under: those main.py uses, and the key
\* check_health itself reports open breakers under
CheckNames == {"chromadb", "cache", "circuit_breakers"}

\* names breakers are created under
BreakerNames == {"chromadb", "test_chromadb"}

\* configs passed to get_circuit_breaker: they open after one failure
RegistryConfigs ==
    {c \in CircuitBreakerConfig :
        /\ c.failure_threshold = 1
        /\ c.success_threshold = 1
        /\ c.half_open_max_calls = MaxHalfOpen}

\* the config argument of get_circuit_breaker: None or a config
ConfigArgs == {<<>>} \cup {<<c>> : c \in RegistryConfigs}

\* CircuitBreaker(name, config) constructed at time t (resilience.py:62-74)
CircuitBreaker(name, arg, t) ==
    [name   |-> name,
     config |-> IF Len(arg) = 0 THEN DefaultConfig ELSE arg[1],
     stats  |-> CircuitBreakerStats(t)]

\* _circuit_breakers[name] = CircuitBreaker(name, config)
\* (resilience.py:332)
store_breaker(objs, regy, name, arg, t) ==
    [breakers |-> Append(objs, CircuitBreaker(name, arg, t)),
     registry |-> (name :> (Len(objs) + 1)) @@ regy]

\* variant: a config passed for a registered name replaces the breaker
get_circuit_breaker_replaces(objs, regy, name, arg, t) ==
    LET w == IF name \notin DOMAIN regy \/ Len(arg) > 0
             THEN store_breaker(objs, regy, name, arg, t)
             ELSE [breakers |-> objs, registry |-> regy]
    IN  [ret |-> w.registry[name], breakers |-> w.breakers,
         registry |-> w.registry]

\* get_circuit_breaker(name, config) run without interruption
\* (resilience.py:329-333): the reference it returns and the registry and
\* objects it leaves behind
get_circuit_breaker(objs, regy, name, arg, t) ==
    LET w == IF name \notin DOMAIN regy
             THEN store_breaker(objs, regy, name, arg, t)
             ELSE [breakers |-> objs, registry |-> regy]
    IN  [ret |-> w.registry[name], breakers |-> w.breakers,
         registry |-> w.registry]

\* variant: reading the stats runs the gate of the breaker first
get_stats_through_gate(b, t) ==
    LET r == should_attempt_call(b.stats, b.config, t) IN
    [ret |-> [name |-> b.name, state |-> r.stats.state,
              total_calls |-> r.stats.total_calls],
     breaker |-> [b EXCEPT !.stats = r.stats]]

\* CircuitBreaker.get_stats (resilience.py:175-189): what it returns and
\* the breaker it leaves behind
get_stats(b, t) ==
    [ret |-> [name |-> b.name, state |-> b.stats.state,
              total_calls |-> b.stats.total_calls],
     breaker |-> b]

\* get_all_circuit_breaker_stats (resilience.py:336-341): get_stats of every
\* registered breaker
get_all_circuit_breaker_stats(objs, regy, t) ==
    [ret |-> [n \in DOMAIN regy |-> get_stats(objs[regy[n]], t).ret],
     breakers |-> [i \in DOMAIN objs |->
                     IF \E n \in DOMAIN regy : regy[n] = i
                     THEN get_stats(objs[i], t).breaker
                     ELSE objs[i]]]

\* f"Health check: {name}"
HealthOperationName(name) ==
    CASE name = "chromadb"         -> "Health check: chromadb"
      [] name = "cache"            -> "Health check: cache"
      [] name = "circuit_breakers" -> "Health check: circuit_breakers"

\* the end of check_health (resilience.py:399-417): open breakers are
\* reported under "circuit_breakers" and lower HEALTHY to DEGRADED
check_breakers(h, breaker_stats) ==
    LET open_circuits == {n \in DOMAIN breaker_stats :
                             breaker_stats[n].state = OPEN} IN
    IF open_circuits # {}
    THEN [h EXCEPT !.pc = "done",
                   !.results = ("circuit_breakers" :>
                                   [status |-> "warning",
                                    open_circuits |-> open_circuits]) @@ @,
                   !.overall_status = IF @ = HEALTHY THEN DEGRADED ELSE @]
    ELSE [h EXCEPT !.pc = "done"]

\* register_check(name, check_func) before any check_health call
RegisterCheck(name) ==
    /\ health.pc = "idle"
    /\ \A i \in 1..Len(health.checks) : health.checks[i] # name
    /\ Len(health.checks) < MaxChecks
    /\ health' = [health EXCEPT !.checks = Append(@, name)]
    /\ UNCHANGED <<collection, retry, wt, registry>>
    /\ UNCHANGED others
    /\ UNCHANGED breaker

\* a client calls get_circuit_breaker(name, config) and keeps the reference
GetCircuitBreaker(c, name, arg) ==
    /\ refs[c].pc = "idle"
    /\ LET r == get_circuit_breaker(breakers, registry, name, arg, now) IN
       /\ breakers' = r.breakers
       /\ registry' = r.registry
       /\ refs' = [refs EXCEPT ![c] = [pc |-> "idle", name |-> name,
                                       arg |-> arg, ref |-> r.ret]]
    /\ UNCHANGED <<collection, retry, wt, health, thr, dependency>>
    /\ UNCHANGED breaker

\* a client uses its reference: the breaker's method `op` runs on the object
use_breaker(b, op, t) ==
    CASE op = "record_failure" ->
            [b EXCEPT !.stats = record_failure(b.stats, b.config, t)]
      [] op = "record_success" ->
            [b EXCEPT !.stats = record_success(b.stats, b.config, t)]
      [] op = "should_attempt_call" ->
            [b EXCEPT !.stats = should_attempt_call(b.stats, b.config, t).stats]

UseBreaker(c, op) ==
    /\ refs[c].pc = "idle"
    /\ refs[c].ref # 0
    /\ LET i == refs[c].ref IN
       /\ op # "should_attempt_call" =>
              breakers[i].stats.total_calls < MaxRecorded
       /\ breakers' = [breakers EXCEPT ![i] = use_breaker(@, op, now)]
    /\ UNCHANGED <<collection, retry, wt, health, registry, refs, thr,
                   dependency>>
    /\ UNCHANGED breaker

\* check_health() is called: it starts the first registered check under
\* with_timeout, or goes on to the breakers if none is registered
CheckHealth ==
    /\ health.pc = "idle"
    /\ wt.owner = "none"
    /\ LET h == [health EXCEPT !.overall_status = HEALTHY] IN
       IF h.checks = <<>>
       THEN LET scan == get_all_circuit_breaker_stats(breakers, registry, now)
            IN  /\ health' = check_breakers(h, scan.ret)
                /\ breakers' = scan.breakers
                /\ wt' = wt
       ELSE /\ health' = [h EXCEPT !.pc = "probing", !.i = 1,
                                   !.started = <<h.checks[1]>>]
            /\ wt' = StartTimeout("health", HealthOperationName(h.checks[1]),
                                  HealthCheckTimeout)
            /\ breakers' = breakers
    /\ UNCHANGED <<collection, retry, registry, refs, thr, dependency>>
    /\ UNCHANGED breaker

\* with_timeout of the running check has returned or raised: its entry is
\* written, an exception makes the status UNHEALTHY, and check_health goes
\* on to the next check or, after the last one, to the breakers
ProbeDone ==
    /\ health.pc = "probing"
    /\ wt.owner = "health"
    /\ wt.result # Pending
    /\ LET name  == health.checks[health.i]
           ok    == wt.result.kind = "result"
           entry == IF ok
                    THEN [status |-> "ok", result |-> <<"result", name>>]
                    ELSE [status |-> "error", error |-> wt.result]
           h     == [health EXCEPT
                        !.results = (name :> entry) @@ @,
                        !.overall_status = IF ok THEN @ ELSE UNHEALTHY,
                        !.raised = IF ok THEN @ ELSE @ \cup {name},
                        !.exceeded = IF wt.deadline_elapsed
                                     THEN @ \cup {name} ELSE @]
       IN  IF health.i < Len(health.checks)
           THEN /\ health' = [h EXCEPT !.i = @ + 1,
                                 !.started = Append(@, h.checks[h.i + 1])]
                /\ wt' = StartTimeout("health",
                             HealthOperationName(h.checks[h.i + 1]),
                             HealthCheckTimeout)
                /\ breakers' = breakers
           ELSE LET scan == get_all_circuit_breaker_stats(breakers, registry,
                                                         now)
                IN  /\ health' = check_breakers(h, scan.ret)
                    /\ breakers' = scan.breakers
                    /\ wt' = WtIdle
    /\ UNCHANGED <<collection, retry, registry, refs, thr, dependency>>
    /\ UNCHANGED breaker

NextHealth ==
    \/ \E name \in CheckNames : RegisterCheck(name)
    \/ \E arg \in ConfigArgs : GetCircuitBreaker(1, "chromadb", arg)
    \/ \E op \in {"record_failure", "should_attempt_call"} : UseBreaker(1, op)
    \/ CheckHealth
    \/ \E out \in OpOutcomes : OpFinishes(out)
    \/ DeadlineElapses
    \/ ProbeDone

\* a process that has created no breaker through the registry yet; the
\* breaker `stats` stands apart from the registry and is not used
InitRegistry ==
    /\ config = DefaultConfig
    /\ FreshBreaker
    /\ collection = HealthyCollection
    /\ InitOthers

SpecHealth == InitRegistry /\ [][NextHealth]_vars

\* clients of the registry calling one after the other, as tasks of one
\* event loop do
NextRegistry ==
    \/ \E c \in 1..NumClients, name \in BreakerNames, arg \in ConfigArgs :
           GetCircuitBreaker(c, name, arg)
    \/ \E c \in 1..NumClients,
          op \in {"record_failure", "record_success", "should_attempt_call"} :
           UseBreaker(c, op)

SpecRegistry == InitRegistry /\ [][NextRegistry]_vars

\* ---- get_circuit_breaker called from several threads ---------------------
\* Nothing in resilience.py takes a lock, so a thread can be preempted
\* between the lines of get_circuit_breaker.
\* line 331: `if name not in _circuit_breakers`
GcbCheck(c, name, arg) ==
    /\ refs[c].pc = "idle"
    /\ refs' = [refs EXCEPT ![c].pc = IF name \in DOMAIN registry
                                      THEN "return" ELSE "create",
                            ![c].name = name,
                            ![c].arg = arg]
    /\ UNCHANGED <<collection, retry, wt, health, registry, breakers, thr,
                   dependency>>
    /\ UNCHANGED breaker

\* line 332: the breaker is constructed and stored under the name
GcbCreate(c) ==
    /\ refs[c].pc = "create"
    /\ LET w == store_breaker(breakers, registry, refs[c].name, refs[c].arg,
                              now) IN
       /\ breakers' = w.breakers
       /\ registry' = w.registry
    /\ refs' = [refs EXCEPT ![c].pc = "return"]
    /\ UNCHANGED <<collection, retry, wt, health, thr, dependency>>
    /\ UNCHANGED breaker

\* line 333: `return _circuit_breakers[name]`
GcbReturn(c) ==
    /\ refs[c].pc = "return"
    /\ refs' = [refs EXCEPT ![c].pc = "idle",
                            ![c].ref = registry[refs[c].name]]
    /\ UNCHANGED <<collection, retry, wt, health, registry, breakers, thr,
                   dependency>>
    /\ UNCHANGED breaker

NextRegistryThreads ==
    \/ \E c \in 1..NumClients, name \in BreakerNames, arg \in ConfigArgs :
           GcbCheck(c, name, arg)
    \/ \E c \in 1..NumClients : GcbCreate(c)
    \/ \E c \in 1..NumClients : GcbReturn(c)

SpecRegistryThreads == InitRegistry /\ [][NextRegistryThreads]_vars

\* ---- record_failure and record_success called from several threads ------
\* CircuitBreaker holds no lock. A thread runs the statements of a method
\* in order and can be preempted where the interpreter can switch threads:
\* at the calls of datetime.now(), of _transition_to_* and of the logger.
\* th.pc names the statements the thread executes next.
\* The stats and the thread after its next step:
thread_step(s, cfg, th, t) ==
    LET to(pc)  == [th EXCEPT !.pc = pc]
        finish  == [th EXCEPT !.pc = "idle", !.op = "none",
                              !.failures = IF th.op = "record_failure"
                                           THEN @ + 1 ELSE @,
                              !.successes = IF th.op = "record_success"
                                            THEN @ + 1 ELSE @]
    IN
    CASE th.op = "record_failure" /\ th.pc = "counters" ->   \* lines 134-136
            [stats |-> [s EXCEPT !.total_calls = @ + 1,
                                 !.total_failures = @ + 1,
                                 !.failure_count = @ + 1],
             thr |-> to("time")]
      [] th.op = "record_failure" /\ th.pc = "time" ->       \* line 137
            [stats |-> [s EXCEPT !.last_failure_time = t],
             thr |-> to("branch")]
      [] th.op = "record_failure" /\ th.pc = "branch" ->     \* lines 139-144
            [stats |-> s,
             thr |-> IF \/ s.state = HALF_OPEN
                        \/ /\ s.state = CLOSED
                           /\ s.failure_count >= cfg.failure_threshold
                     THEN to("open_state") ELSE finish]
      [] th.pc = "open_state" ->                             \* line 107
            [stats |-> [s EXCEPT !.state = OPEN], thr |-> to("open_time")]
      [] th.pc = "open_time" ->                              \* line 108
            [stats |-> [s EXCEPT !.last_failure_time = t],
             thr |-> to("open_change")]
      [] th.pc = "open_change" ->                            \* line 109
            [stats |-> [s EXCEPT !.last_state_change = t], thr |-> finish]
      [] th.op = "record_success" /\ th.pc = "counters" ->   \* lines 121-122
            [stats |-> [s EXCEPT !.total_calls = @ + 1,
                                 !.total_successes = @ + 1],
             thr |-> to("branch")]
      [] th.op = "record_success" /\ th.pc = "branch" ->     \* lines 124-130
            IF s.state = HALF_OPEN
            THEN [stats |-> [s EXCEPT !.success_count = @ + 1],
                  thr |-> IF s.success_count + 1 >= cfg.success_threshold
                          THEN to("closed_state") ELSE finish]
            ELSE IF s.state = CLOSED
            THEN [stats |-> [s EXCEPT !.failure_count = 0], thr |-> finish]
            ELSE [stats |-> s, thr |-> finish]
      [] th.pc = "closed_state" ->                           \* line 114
            [stats |-> [s EXCEPT !.state = CLOSED],
             thr |-> to("closed_counts")]
      [] th.pc = "closed_counts" ->                          \* lines 115-116
            [stats |-> [s EXCEPT !.failure_count = 0, !.success_count = 0],
             thr |-> to("closed_change")]
      [] th.pc = "closed_change" ->                          \* line 117
            [stats |-> [s EXCEPT !.last_state_change = t], thr |-> finish]

\* the threads inside a method of the breaker
Active == {t \in 1..NumThreads : thr[t].pc # "idle"}

\* a thread enters record_failure or record_success
ThreadCall(t, op) ==
    /\ thr[t].pc = "idle"
    /\ stats.total_calls + Cardinality(Active) < MaxCalls
    /\ thr' = [thr EXCEPT ![t].pc = "counters", ![t].op = op]
    /\ last' = Step(op, "entered", "none")
    /\ UNCHANGED <<config, stats, now, awaiting, probes, invocations,
                   collection_calls, streak>>
    /\ UNCHANGED <<collection, retry, wt, health, registry, breakers, refs,
                   dependency>>

\* a thread inside a method executes its next statements
ThreadStep(t) ==
    /\ thr[t].pc # "idle"
    /\ LET r == thread_step(stats, config, thr[t], now) IN
       /\ stats' = r.stats
       /\ thr' = [thr EXCEPT ![t] = r.thr]
       /\ last' = Step(thr[t].op, thr[t].pc,
                       IF r.thr.pc # "idle" THEN "none"
                       ELSE IF thr[t].op = "record_failure" THEN "failure"
                       ELSE "success")
    /\ UNCHANGED <<config, now, awaiting, probes, invocations,
                   collection_calls, streak>>
    /\ UNCHANGED <<collection, retry, wt, health, registry, breakers, refs,
                   dependency>>

NextThreads ==
    \/ Tick
    \/ ShouldAttemptCall
    \/ \E t \in 1..NumThreads, op \in {"record_failure", "record_success"} :
           ThreadCall(t, op)
    \/ \E t \in 1..NumThreads : ThreadStep(t)

SpecThreads == Init /\ [][NextThreads]_vars

\* ---- recovery of the dependency behind CircuitBreaker.call --------------
\* the function behind call stops failing
Recover ==
    /\ dependency = "down"
    /\ dependency' = "up"
    /\ last' = Step("recover", "none", "none")
    /\ UNCHANGED breaker_but_last
    /\ UNCHANGED <<collection, retry, wt, health, registry, breakers, refs,
                   thr>>

\* the open timeout runs out: the clock reaches last_failure_time + timeout
\* (resilience.py:84-85)
TimeoutElapses ==
    /\ stats.state = OPEN
    /\ stats.last_failure_time # None
    /\ now < stats.last_failure_time + config.timeout
    /\ now' = stats.last_failure_time + config.timeout
    /\ last' = Step("tick", "none", "none")
    /\ UNCHANGED <<config, stats, awaiting, probes, invocations,
                   collection_calls, streak>>
    /\ UNCHANGED ext

\* func of one waiting task finishes as the dependency dictates
DependencyCallEnd ==
    \E probe \in BOOLEAN : CallEnd(probe, dependency = "up")

NextRecover ==
    \/ Recover
    \/ TimeoutElapses
    \/ CallBegin
    \/ DependencyCallEnd

\* callers keep invoking call, the event loop runs every waiting task to
\* its end, and time passes
SpecRecover ==
    /\ InitRegistry
    /\ [][NextRecover]_vars
    /\ WF_vars(CallBegin)
    /\ WF_vars(DependencyCallEnd)
    /\ WF_vars(TimeoutElapses)

TypeOK ==
    /\ config \in CircuitBreakerConfig
    /\ stats.state \in CircuitState
    /\ now \in 0..MaxTime
    /\ stats.total_calls = stats.total_failures + stats.total_successes
    /\ stats.total_calls <= MaxCalls
\* =========================================================================
\* Properties
\* =========================================================================
\* seconds since last_failure_time, as _should_attempt_call computes them
Elapsed == now - stats.last_failure_time

InOpenWindow ==
    /\ stats.state = OPEN
    /\ stats.last_failure_time # None
    /\ Elapsed < config.timeout

\* C1: in CLOSED failure_count is the number of consecutive failures: a
\* recorded success resets it to 0, and the breaker opens exactly at the
\* failure that brings the streak since the last success (or since entering
\* CLOSED) to failure_threshold; failures separated by a success never add up.
C1_ConsecutiveFailures ==
    [][ /\ (stats.state = CLOSED /\ last'.recorded = "success")
            => stats'.failure_count = 0
        /\ (stats.state = CLOSED /\ stats'.state = CLOSED)
            => stats'.failure_count = streak'
        /\ (stats.state = CLOSED /\ stats'.state = OPEN)
            => /\ last'.recorded = "failure"
               /\ streak + 1 = config.failure_threshold
        /\ (stats.state = CLOSED /\ last'.recorded = "failure"
              /\ streak + 1 = config.failure_threshold)
            => stats'.state = OPEN
      ]_vars

\* failure, success, failure with failure_threshold = 2: still CLOSED
C1_Witness ==
    /\ config.failure_threshold = 2
    /\ stats.state = CLOSED
    /\ stats.total_failures = 2
    /\ stats.total_successes = 1
    /\ streak = 1
    /\ last.recorded = "failure"

\* C2: CircuitBreaker.call on an OPEN breaker whose timeout has not elapsed
\* raises CircuitBreakerOpenError and does not invoke the wrapped function.
C2_OpenRejectsCall ==
    [][ (last'.op = "call" /\ InOpenWindow)
            => /\ last'.result = "CircuitBreakerOpenError"
               /\ invocations' = invocations
               /\ awaiting' = awaiting
      ]_vars

C2_Witness ==
    /\ last.op = "call"
    /\ last.result = "CircuitBreakerOpenError"
    /\ last.from = OPEN
    /\ stats.state = OPEN
    /\ invocations > 0

\* C3: while OPEN, _should_attempt_call returns false and changes nothing as
\* long as less than timeout has elapsed since last_failure_time; once the
\* timeout has elapsed it moves the breaker to HALF_OPEN and returns true; and
\* OPEN becomes HALF_OPEN only inside such a call, never by a clock tick.
C3_LazyHalfOpen ==
    [][ /\ (last'.op = "should_attempt_call" /\ InOpenWindow)
            => last'.result = "false" /\ stats' = stats
        /\ (last'.op = "should_attempt_call" /\ stats.state = OPEN
              /\ ~InOpenWindow)
            => last'.result = "true" /\ stats'.state = HALF_OPEN
        /\ (stats.state = OPEN /\ stats'.state = HALF_OPEN)
            => /\ last'.op \in {"should_attempt_call", "call"}
               /\ Elapsed >= config.timeout
        /\ (last'.op = "tick") => stats' = stats
      ]_vars

C3_Witness ==
    /\ last.op = "should_attempt_call"
    /\ last.result = "true"
    /\ last.from = OPEN
    /\ stats.state = HALF_OPEN
    /\ config.timeout > 0
    /\ now - stats.last_failure_time = config.timeout

\* C4: in HALF_OPEN a single recorded failure reopens the breaker, whatever
\* success_count and whatever probe budget is left.
C4_HalfOpenFailureReopens ==
    [][ (stats.state = HALF_OPEN /\ last'.recorded = "failure")
            => stats'.state = OPEN
      ]_vars

\* a failure after a success in HALF_OPEN, with failure_threshold not reached
C4_Witness ==
    /\ last.recorded = "failure"
    /\ last.from = HALF_OPEN
    /\ stats.state = OPEN
    /\ stats.success_count >= 1
    /\ stats.failure_count < config.failure_threshold

\* C5: in HALF_OPEN the recorded success that brings success_count to
\* success_threshold closes the breaker with failure_count = 0; a success
\* that leaves success_count below success_threshold keeps it HALF_OPEN.
C5_HalfOpenSuccessCloses ==
    [][ (stats.state = HALF_OPEN /\ last'.recorded = "success")
            => IF stats.success_count + 1 = config.success_threshold
               THEN stats'.state = CLOSED /\ stats'.failure_count = 0
               ELSE /\ stats.success_count + 1 < config.success_threshold
                    /\ stats'.state = HALF_OPEN
                    /\ stats'.success_count = stats.success_count + 1
      ]_vars

\* closed by the second success
C5_Witness ==
    /\ config.success_threshold = 2
    /\ last.recorded = "success"
    /\ last.from = HALF_OPEN
    /\ stats.state = CLOSED
    /\ stats.total_successes >= 2

\* C6: after the breaker was opened by failed calls and has entered HALF_OPEN,
\* the following calls are admitted (no CircuitBreakerOpenError) until
\* success_threshold of them have succeeded and closed the breaker, whenever
\* success_threshold <= half_open_max_calls.  Stated for calls that start
\* while no other call is in flight.
C6_RecoveryCallsAdmitted ==
    [][ (last'.op = "call" /\ stats.state = HALF_OPEN /\ awaiting = 0
           /\ config.success_threshold <= config.half_open_max_calls)
            => last'.result = "admitted"
      ]_vars

\* C7: while HALF_OPEN, the calls admitted by the gate whose outcome is not
\* recorded yet never number more than half_open_max_calls.
C7_ProbesBounded ==
    stats.state = HALF_OPEN
        => probes <= config.half_open_max_calls

\* C8 (as stated): right after every state transition failure_count and
\* success_count are both 0.
C8_CountersResetOnEveryTransition ==
    [][ stats'.state # stats.state
            => stats'.failure_count = 0 /\ stats'.success_count = 0
      ]_vars

\* C8 (amended): right after a transition into HALF_OPEN or into CLOSED both
\* counters are 0; a transition into OPEN resets neither: failure_count is
\* the count that includes the failure just recorded (at least 1) and
\* success_count keeps the value it had.
C8_CountersResetOnRecoveryTransitions ==
    [][ stats'.state # stats.state
            => IF stats'.state = OPEN
               THEN /\ stats'.failure_count = stats.failure_count + 1
                    /\ stats'.success_count = stats.success_count
               ELSE stats'.failure_count = 0 /\ stats'.success_count = 0
      ]_vars

\* the breaker has just been closed from HALF_OPEN
C8_Witness ==
    /\ last.from = HALF_OPEN
    /\ stats.state = CLOSED
    /\ stats.failure_count = 0
    /\ stats.success_count = 0

\* C9: a query made while the gate returns false raises
\* CircuitBreakerOpenError, does not invoke the collection and is not
\* recorded: state, counters and last_failure_time are unchanged.
C9_RejectedQueryNotRecorded ==
    [][ (last'.op = "query" /\ ~should_attempt_call(stats, config, now).ret)
            => /\ last'.result = "CircuitBreakerOpenError"
               /\ last'.recorded = "none"
               /\ collection_calls' = collection_calls
               /\ stats' = stats
      ]_vars

C9_Witness ==
    /\ last.op = "query"
    /\ last.result = "CircuitBreakerOpenError"
    /\ last.from = OPEN
    /\ stats.state = OPEN

\* C10: query, get and count all ask the breaker first: while the breaker is
\* OPEN and its timeout has not elapsed each of them raises
\* CircuitBreakerOpenError without invoking the collection.
C10_EveryOperationGated ==
    [][ (last'.op \in {"query", "get", "count"} /\ InOpenWindow)
            => /\ last'.result = "CircuitBreakerOpenError"
               /\ collection_calls' = collection_calls
      ]_vars
\* max_retries of the retry decorator of each wrapper operation
OpMaxRetries(op) == IF op = "count" THEN CountMaxRetries ELSE WrapperMaxRetries

\* C11: a wrapper operation called while the breaker admits calls, whose
\* collection operation fails k <= max_retries times and then succeeds,
\* returns the result, has invoked the collection exactly k+1 times and
\* records a success.
C11_RetriedCallSucceeds ==
    [][ (last'.op \in {"query", "get", "count"}
           /\ should_attempt_call(stats, config, now).ret
           /\ collection.fails <= OpMaxRetries(last'.op))
            => /\ last'.result = "result"
               /\ collection_calls' = collection_calls + collection.fails + 1
               /\ last'.recorded = "success"
      ]_vars

\* the error query is expected to raise for each cause of failure
ExpectedQueryError(kind) ==
    CASE kind = "timeout"    -> "ChromaDBTimeoutError"
      [] kind = "connection" -> "ChromaDBConnectionError"
      [] OTHER               -> "ChromaDBQueryError"

\* C12: an admitted query that fails overall raises the error of its cause
\* (timeout, connection, anything else) and records a failure.
C12_QueryErrorReflectsCause ==
    [][ (last'.op = "query"
           /\ should_attempt_call(stats, config, now).ret
           /\ collection.fails > WrapperMaxRetries)
            => /\ last'.result = ExpectedQueryError(collection.kind)
               /\ last'.recorded = "failure"
      ]_vars

C14_RetryBudget ==
    /\ retry.invocations <= retry.max_retries + 1
    /\ retry.pc = "returned" =>
          /\ retry.failures <= retry.max_retries
          /\ retry.invocations = retry.failures + 1
          /\ retry.outcome = [kind |-> "result", n |-> retry.failures + 1]
    /\ (retry.pc = "raised" /\ Matches(retry.outcome.kind, retry.exceptions)) =>
          /\ retry.invocations = retry.max_retries + 1
          /\ retry.failures = retry.max_retries + 1
          /\ retry.outcome = retry.error
          /\ retry.outcome.n = retry.invocations

\* func failed twice and succeeded in its third attempt
C14_Witness ==
    /\ retry.pc = "returned"
    /\ retry.failures = 2
    /\ retry.invocations = 3
    /\ retry.outcome.n = 3

\* C15: once func has raised CircuitBreakerOpenError, retry_with_backoff
\* does not invoke it again, whatever the retry policy.
C15_RejectionNeverRetried ==
    [][ retry.error.kind = "CircuitBreakerOpenError" =>
            retry'.invocations = retry.invocations ]_vars

\* C16: an exception the `exceptions` tuple does not match leaves
\* retry_with_backoff from the attempt that raised it: func is not invoked
\* again and no backoff sleep follows it, so the sleeps are those after the
\* earlier failures.
C16_NonRetryablePropagates ==
    (retry.error.kind # "none" /\ ~Matches(retry.error.kind, retry.exceptions)) =>
        /\ retry.pc = "raised"
        /\ retry.outcome = retry.error
        /\ retry.error.n = retry.invocations
        /\ retry.sleeps = retry.failures - 1

\* a non-retryable error propagated from the second attempt although an
\* attempt was left
C16_Witness ==
    /\ retry.pc = "raised"
    /\ ~Matches(retry.outcome.kind, retry.exceptions)
    /\ retry.invocations = 2
    /\ retry.sleeps = 1
    /\ retry.attempt < retry.max_retries

\* C17: an attempt that exceeds the deadline of with_timeout is one failed
\* attempt of retry_with_backoff: it counts as a failure, uses up one
\* attempt, and func is attempted again if an attempt is left.
C17_TimeoutIsOneRetryableAttempt ==
    [][ /\ (retry.pc = "running" /\ retry'.pc # "running" /\ wt.deadline_elapsed) =>
              /\ retry'.failures = retry.failures + 1
              /\ retry'.error = [kind |-> "TimeoutError", n |-> retry.invocations]
              /\ retry'.invocations = retry.invocations
              /\ retry'.pc = IF retry.attempt < retry.max_retries
                             THEN "sleeping" ELSE "raised"
        /\ (retry.pc = "sleeping" /\ retry.error.kind = "TimeoutError") =>
              /\ retry'.pc = "running"
              /\ retry'.attempt = retry.attempt + 1
              /\ retry'.invocations = retry.invocations + 1 ]_vars

\* C18: with_timeout returns what the operation returned (or raises what it
\* raised) if the operation ends before the deadline; once the deadline has
\* elapsed it has requested cancellation and raises TimeoutError naming the
\* operation and the duration, never a result of the operation.
C18_TimeoutNeverReturnsLateResult ==
    wt.result # Pending =>
        IF wt.deadline_elapsed
        THEN /\ wt.cancel_requested
             /\ wt.result = [kind |-> "TimeoutError",
                             message |-> <<wt.operation_name,
                                           wt.timeout_seconds>>]
        ELSE /\ wt.result.kind \in {"result"} \cup OpErrors
             /\ ~wt.cancel_requested

\* C19: check_health returns UNHEALTHY if a registered check raised or
\* exceeded its deadline; otherwise DEGRADED if a breaker of the registry
\* is OPEN; otherwise HEALTHY.
C19_AggregationRule ==
    [][ (health.pc # "done" /\ health'.pc = "done") =>
            health'.overall_status =
                IF health'.raised \cup health'.exceeded # {}
                THEN UNHEALTHY
                ELSE IF \E b \in DOMAIN registry :
                            breakers[registry[b]].stats.state = OPEN
                THEN DEGRADED
                ELSE HEALTHY ]_vars

\* C20: the details of a finished check_health hold, for every registered
\* check, an entry with status "ok" and its result or status "error" and
\* its error; every registered check was run, in order of registration.
C20_EveryProbeReported ==
    health.pc = "done" =>
        /\ health.started = health.checks
        /\ \A i \in 1..Len(health.checks) :
              LET name == health.checks[i] IN
              /\ name \in DOMAIN health.results
              /\ health.results[name].status \in {"ok", "error"}
              /\ IF health.results[name].status = "ok"
                 THEN /\ name \notin health.raised
                      /\ health.results[name].result = <<"result", name>>
                 ELSE /\ name \in health.raised
                      /\ health.results[name].error.kind
                             \in OpErrors \cup {"TimeoutError"}

\* C21: check_health runs the registered checks concurrently: while it
\* waits for a check to finish, every registered check has been started.
C21_ProbesStartedTogether ==
    health.pc = "probing" => health.started = health.checks

\* C22: calls of get_circuit_breaker made one after the other: every
\* reference returned for a name is the one object registered under it, a
\* name is never bound to another object, an object never changes its
\* config, and a new object has the config of the call that created it.
C22_SameNameSameBreaker ==
    [][ /\ \A c \in 1..NumClients :
              refs'[c].ref # 0 =>
                  /\ refs'[c].name \in DOMAIN registry'
                  /\ refs'[c].ref = registry'[refs'[c].name]
        /\ \A c1 \in 1..NumClients, c2 \in 1..NumClients :
              (refs'[c1].ref # 0 /\ refs'[c2].ref # 0
                   /\ refs'[c1].name = refs'[c2].name) =>
                  refs'[c1].ref = refs'[c2].ref
        /\ \A n \in DOMAIN registry :
              n \in DOMAIN registry' /\ registry'[n] = registry[n]
        /\ \A i \in 1..Len(breakers) :
              /\ breakers'[i].config = breakers[i].config
              /\ breakers'[i].name = breakers[i].name
        /\ \A i \in (Len(breakers) + 1)..Len(breakers') :
              \E c \in 1..NumClients :
                  /\ refs'[c] # refs[c]
                  /\ refs'[c].ref = i
                  /\ breakers'[i].config =
                         IF Len(refs'[c].arg) = 0 THEN DefaultConfig
                         ELSE refs'[c].arg[1] ]_vars

\* two clients hold the same breaker although the second passed a config
\* of its own, and a failure recorded through it is there for both
C22_Witness ==
    /\ refs[1].ref # 0
    /\ refs[1].ref = refs[2].ref
    /\ Len(refs[1].arg) = 0
    /\ Len(refs[2].arg) = 1
    /\ breakers[refs[2].ref].config = DefaultConfig
    /\ breakers[refs[1].ref].stats.total_failures = 1

\* C23: callers that ask for the same unregistered name concurrently: one
\* CircuitBreaker is created for the name and all of them receive it.
C23_OneBreakerPerName ==
    /\ \A i \in 1..Len(breakers), j \in 1..Len(breakers) :
          breakers[i].name = breakers[j].name => i = j
    /\ \A c1 \in 1..NumClients, c2 \in 1..NumClients :
          (refs[c1].ref # 0 /\ refs[c2].ref # 0
               /\ refs[c1].name = refs[c2].name
               /\ refs[c1].pc = "idle" /\ refs[c2].pc = "idle") =>
              refs[c1].ref = refs[c2].ref

\* C25: check_health leaves every breaker as it is: no step of it changes
\* an object of the registry, the registry, or the breaker in front of the
\* collection.
C25_CheckHealthReadsOnly ==
    [][ health' # health =>
            /\ breakers' = breakers
            /\ registry' = registry
            /\ stats' = stats ]_vars

\* check_health has reported a breaker as open whose timeout had elapsed,
\* and the breaker is still OPEN
C25_Witness ==
    /\ health.pc = "done"
    /\ "circuit_breakers" \in DOMAIN health.results
    /\ \E n \in DOMAIN registry :
          LET b == breakers[registry[n]] IN
          /\ b.stats.state = OPEN
          /\ b.stats.last_failure_time # None
          /\ now - b.stats.last_failure_time >= b.config.timeout

\* the record_failure / record_success calls the threads 1..n completed
RECURSIVE Completed(_, _)
Completed(field, n) ==
    IF n = 0 THEN 0
    ELSE (IF field = "failures" THEN thr[n].failures ELSE thr[n].successes)
         + Completed(field, n - 1)

\* C24: record_success, record_failure and _should_attempt_call act on the
\* breaker as atomic units: a caller never finds the counters ahead of the
\* state (CLOSED with failure_count at the threshold, HALF_OPEN with
\* success_count at the threshold), and once the concurrent calls are over
\* the lifetime counters have grown by the number of calls.
C24_AtomicUpdates ==
    /\ stats.state = CLOSED =>
          stats.failure_count < config.failure_threshold
    /\ stats.state = HALF_OPEN =>
          stats.success_count < config.success_threshold
    /\ stats.total_calls = stats.total_failures + stats.total_successes
    /\ Active = {} =>
          /\ stats.total_failures = Completed("failures", NumThreads)
          /\ stats.total_successes = Completed("successes", NumThreads)

\* C26: the state changes only along four edges, each by its operation:
\* CLOSED -> OPEN by a recorded failure, OPEN -> HALF_OPEN by the gate once
\* the timeout has elapsed, HALF_OPEN -> CLOSED by a recorded success,
\* HALF_OPEN -> OPEN by a recorded failure; never CLOSED -> HALF_OPEN or
\* OPEN -> CLOSED, and an outcome recorded while OPEN leaves the breaker OPEN.
C26_TransitionEdges ==
    [][ /\ stats'.state # stats.state =>
            \/ /\ stats.state = CLOSED /\ stats'.state = OPEN
               /\ last'.recorded = "failure"
            \/ /\ stats.state = OPEN /\ stats'.state = HALF_OPEN
               /\ last'.recorded = "none"
               /\ last'.result \in {"true", "admitted"}
               /\ stats.last_failure_time # None
               /\ Elapsed >= config.timeout
            \/ /\ stats.state = HALF_OPEN /\ stats'.state = CLOSED
               /\ last'.recorded = "success"
            \/ /\ stats.state = HALF_OPEN /\ stats'.state = OPEN
               /\ last'.recorded = "failure"
        /\ (stats.state = OPEN /\ last'.recorded # "none")
              => stats'.state = OPEN ]_vars

\* a success was recorded on an OPEN breaker after the breaker had been
\* through HALF_OPEN -> CLOSED -> OPEN
C26_Witness ==
    /\ last.from = OPEN
    /\ last.recorded = "success"
    /\ stats.state = OPEN
    /\ stats.total_successes >= 2

\* C30: between operations the state and the counters agree: CLOSED has
\* failure_count below failure_threshold, HALF_OPEN has success_count below
\* success_threshold and failure_count 0, OPEN has last_failure_time set.
C30_StateCounterInvariants ==
    /\ stats.state = CLOSED =>
          stats.failure_count < config.failure_threshold
    /\ stats.state = HALF_OPEN =>
          /\ stats.success_count < config.success_threshold
          /\ stats.failure_count = 0
    /\ stats.state = OPEN => stats.last_failure_time # None

\* a HALF_OPEN breaker that has recorded a success and stayed HALF_OPEN
C30_Witness ==
    /\ stats.state = HALF_OPEN
    /\ stats.success_count >= 1
    /\ last.recorded = "success"

\* C27: a query that passes the gate records exactly one outcome on the
\* breaker for the whole call: total_calls grows by one, through either one
\* success or one failure, whatever the number of attempts.
C27_OneOutcomePerQuery ==
    [][ (last'.op = "query" /\ should_attempt_call(stats, config, now).ret)
          => /\ last'.recorded \in {"success", "failure"}
             /\ stats'.total_calls = stats.total_calls + 1
             /\ stats'.total_successes + stats'.total_failures
                  = stats.total_successes + stats.total_failures + 1 ]_vars

\* a query went through the gate of a breaker that had been OPEN
C27_Witness ==
    /\ last.op = "query"
    /\ last.from = OPEN
    /\ last.recorded # "none"

\* C29: outcomes recorded while OPEN do not postpone recovery: a gate check
\* made on an OPEN breaker at least `timeout` after the moment the circuit
\* opened (last_state_change) is admitted and moves the breaker to HALF_OPEN.
C29_RecoveryNotPostponed ==
    [][ ( /\ stats.state = OPEN
          /\ last'.op = "should_attempt_call"
          /\ now - stats.last_state_change >= config.timeout )
          => /\ last'.result = "true"
             /\ stats'.state = HALF_OPEN ]_vars

\* C28: with the default configuration, once the dependency has recovered
\* and callers keep invoking call, an OPEN breaker (with room left in the
\* model for the success_threshold calls that close it) eventually becomes
\* CLOSED; it does not stay HALF_OPEN rejecting every call.
C28_OpenEventuallyCloses ==
    ( /\ stats.state = OPEN
      /\ dependency = "up"
      /\ stats.total_calls + awaiting + config.success_threshold <= CallCap )
        ~> (stats.state = CLOSED)
====
